---------------------------- MODULE Spec2Model ----------------------------
(***************************************************************************)
(* A model of the nitox NATS client core (src/client.rs): the outbound     *)
(* queue and its writer task (NatsClientSender), the demultiplexer and its *)
(* subscription registry (NatsClientMultiplexer) and the primitives of the *)
(* facade (NatsClient); and of the PUB codec                               *)
(* (src/protocol/client/pub_cmd.rs).                                       *)
(*                                                                         *)
(* Every unbounded_send, every registry access under the RwLock and every  *)
(* socket read or write is one atomic step; the caller, the writer task    *)
(* and the reader task run on a thread pool and interleave freely.         *)
(***************************************************************************)
EXTENDS Integers, Sequences, FiniteSets, TLC

\* Bounds of the model.
MaxCalls == 2      \* calls of publish / subscribe / unsubscribe / request
MaxEmit == 2       \* frames the broker puts on the connection
MaxPayload == 2    \* bytes of a generated payload

VARIABLES
    outq,      \* NatsClientSender: the unbounded channel tx -> rx
    wire,      \* the operations written to the socket, in order
    writer,    \* the task spawned by NatsClientSender::new
    arrived,   \* how many operations the outbound channel has accepted
    sent,      \* per caller: how many primitives it has invoked
    rstream,   \* the frames the broker has emitted, in emission order
    rpos,      \* how many of them the reader task has taken
    reader,    \* the task spawned by NatsClientMultiplexer::new
    subs_tx,   \* NatsClientMultiplexer.subs_tx: sid -> sender of a sink
    other,     \* the control channel other_tx -> other_rx
    subs,      \* the futures / streams returned by subscribe
    reqs,      \* the futures returned by request
    client,    \* the NatsClient value: held by its users or dropped
    res,       \* per caller: what its last publish / unsubscribe / connect returned
    codec      \* a PubCommand on its way through into_vec and try_parse

vars == <<outq, wire, writer, arrived, sent, rstream, rpos, reader,
          subs_tx, other, subs, reqs, client, res, codec>>

----------------------------------------------------------------------------
\* Values

Callers == {<<"caller", 1>>, <<"caller", 2>>}
UserSids == {<<"sid", 1>>, <<"sid", 2>>}
UserSubject == <<"subject", 1>>
NoSid == <<"sid", 0>>
NoSubject == <<"subject", 0>>
NoOwner == <<"none", 0>>
NoMsg == [t |-> "none", sid |-> NoSid, subject |-> NoSubject, n |-> 0]

\* SubCommandBuilder::generate_sid and PubCommandBuilder::generate_reply_to:
\* the r-th request draws a sid and an inbox no one else holds.
ReqSid(r) == <<"rsid", r>>
Inbox(r) == <<"inbox", r>>
ReqSids == {ReqSid(r) : r \in 1..MaxCalls}

\* No PubCommand is under way in the codec.
NoCodec == [pc |-> "idle"]
AllSids == UserSids \cup ReqSids

CtlOps == {"PING", "+OK"}

\* Operations of the outbound path.  by/k name the producer and the index of
\* the send among that producer's sends; n is the arrival index at the queue.
OutOp(t, subject, sid, reply_to, max_msgs, by, k) ==
    [t |-> t, subject |-> subject, sid |-> sid, reply_to |-> reply_to,
     max_msgs |-> max_msgs, by |-> by, k |-> k, n |-> 0]

\* Frames of the inbound path; n is the position in the broker's emission.
Frame(t, subject, sid, n) == [t |-> t, subject |-> subject, sid |-> sid, n |-> n]

----------------------------------------------------------------------------
\* Channels (futures::sync::mpsc::unbounded)

\* A channel that hands out its newest item first.
PushFront(q, x) == <<x>> \o q

\* UnboundedSender::unbounded_send on a channel whose receiver is alive.
Push(q, x) == Append(q, x)

\* A receiver that takes the newest item of the channel.
NextLast(q) == q[Len(q)]

\* A receiver that loses the item behind the one it takes.
RestSkip(q) == IF Len(q) >= 2 THEN Tail(Tail(q)) ELSE Tail(q)

\* The receiver side: the next item of the channel.
Next1(q) == Head(q)
Rest(q) == Tail(q)

\* An unbounded_send that succeeds whether or not a receiver is left.
SendAlways == TRUE

\* NatsClientSender::send: the receiver of the outbound channel lives in the
\* writer task; once that task has ended unbounded_send returns Err.
SendOk == writer = "running"

Stamp(op) == [op EXCEPT !.n = arrived + 1]

\* A send that lets the new operation overtake the ones still queued.
SendFront(op) ==
    IF SendOk
    THEN /\ outq' = <<Stamp(op)>> \o outq
         /\ arrived' = arrived + 1
    ELSE UNCHANGED <<outq, arrived>>

Send(op) ==
    IF SendOk
    THEN /\ outq' = Push(outq, Stamp(op))
         /\ arrived' = arrived + 1
    ELSE UNCHANGED <<outq, arrived>>

----------------------------------------------------------------------------
\* Registry (NatsClientMultiplexer)

\* A lookup that ignores the sid and answers with any registered sink.
LookupAny(reg, sid) ==
    IF \E s \in DOMAIN reg : reg[s] # NoOwner
    THEN reg[CHOOSE s \in DOMAIN reg : reg[s] # NoOwner]
    ELSE NoOwner

\* stx.get(&msg.sid)
Lookup(reg, sid) == reg[sid]

\* An insert that keeps the entry a sid already has.
InsertIfAbsent(reg, sid, owner) ==
    IF reg[sid] = NoOwner THEN [reg EXCEPT ![sid] = owner] ELSE reg

\* subs.insert(sid, tx)
Insert(reg, sid, owner) == [reg EXCEPT ![sid] = owner]

Registered(sid) == Lookup(subs_tx, sid) # NoOwner

\* Is the receiving half of owner o's sink still held by its consumer?
RxAlive(o) ==
    IF o[1] = "sub" THEN subs[o[2]].pc = "stream"
    ELSE reqs[o[2]].pc = "await"

\* Is the sender of owner o's sink still in the registry?  The registry holds
\* the only sender of a sink, so the sink ends once this is false.
TxAlive(o) ==
    LET sid == IF o[1] = "sub" THEN subs[o[2]].sid ELSE ReqSid(o[2])
    IN Lookup(subs_tx, sid) = o

\* Who holds an Arc<NatsClientMultiplexer>: the client (field rx) and the
\* and_then closures of subscribe (inner_rx) and request (rx) that have not
\* run yet.  A future that resolved with the error of its send is counted as
\* polled and dropped.
MultiplexerHeld(cl, ss, rs) ==
    \/ cl = "alive"
    \/ \E f \in 1..Len(ss) : ss[f].pc = "called"
    \/ \E r \in 1..Len(rs) : rs[r].pc \in {"sub", "unsub", "pub"}

\* subs_tx and other_tx are Arcs held by the multiplexer and, as stx_inner
\* and otx_inner, by the closure of the reader task.
SinksHeld(rd, cl, ss, rs) == rd = "running" \/ MultiplexerHeld(cl, ss, rs)

EmptyRegistry == [s \in AllSids |-> NoOwner]

\* The registry after a step that may have released its last holder: the
\* HashMap is dropped with every sender it holds.
Keep(reg, rd, cl, ss, rs) ==
    IF SinksHeld(rd, cl, ss, rs) THEN reg ELSE EmptyRegistry

----------------------------------------------------------------------------
\* The PUB codec (src/protocol/client/pub_cmd.rs)

TAB == "\t"
CR == "\r"
LF == "\n"
SP == " "

\* Option<T>: None is the empty sequence, Some(x) is <<x>>.
None == <<>>
Some(x) == <<x>>

Ok(v) == [tag |-> "Ok", v |-> v]
Err(e) == [tag |-> "Err", v |-> e]
Panic == [tag |-> "Panic", v |-> "index out of range"]

\* The commands the codec is run on: subjects and inboxes without
\* whitespace, every payload of up to MaxPayload bytes over a letter, CR and
\* LF, and one payload long enough for a length of two digits.
PayloadBytes == {"x", CR, LF}
LongPayload == [i \in 1..11 |-> "x"]
Payloads ==
    UNION {[1..k -> PayloadBytes] : k \in 0..MaxPayload} \cup {LongPayload}
CodecSubjects == {<<"f", "o", "o">>, <<"a">>}
ReplyTos == {None, Some(<<"I", "N", "B", "O", "X", "1">>)}
PubCommands ==
    [subject : CodecSubjects, reply_to : ReplyTos, payload : Payloads]

Digits == <<"0", "1", "2", "3", "4", "5", "6", "7", "8", "9">>

\* format!("{}", n) of a usize
RECURSIVE Decimal(_)
Decimal(n) ==
    IF n < 10 THEN <<Digits[n + 1]>>
    ELSE Decimal(n \div 10) \o <<Digits[(n % 10) + 1]>>

\* An encoder that counts the CRLF after the payload into the length.
into_vec_long(op) ==
    LET rt == IF op.reply_to # None THEN <<TAB>> \o op.reply_to[1] ELSE <<>>
    IN <<"P", "U", "B", TAB>> \o op.subject \o rt \o <<TAB>>
           \o Decimal(Len(op.payload) + 2) \o <<CR, LF>> \o op.payload \o <<CR, LF>>

\* PubCommand::into_vec
into_vec(op) ==
    LET rt == IF op.reply_to # None THEN <<TAB>> \o op.reply_to[1] ELSE <<>>
        cmd_str == <<"P", "U", "B", TAB>> \o op.subject \o rt \o <<TAB>>
                       \o Decimal(Len(op.payload)) \o <<CR, LF>>
    IN cmd_str \o op.payload \o <<CR, LF>>

\* Rust indexing: buf[k] and buf[a..b], counted from 0.
At(buf, k) == buf[k + 1]
Slice(buf, a, b) == SubSeq(buf, a + 1, b)

\* iter().position(|b| *b == b'\r'): the first index, -1 for None.
Position(buf) ==
    IF \E i \in 1..Len(buf) : buf[i] = CR
    THEN (CHOOSE i \in 1..Len(buf) :
            buf[i] = CR /\ \A j \in 1..(i - 1) : buf[j] # CR) - 1
    ELSE -1

IsSpace(b) == b \in {SP, TAB, CR, LF}

\* str::split_whitespace: the maximal runs of bytes that are not whitespace.
RECURSIVE split_whitespace(_)
split_whitespace(str) ==
    IF str = <<>> THEN <<>>
    ELSE IF IsSpace(Head(str)) THEN split_whitespace(Tail(str))
    ELSE LET n == CHOOSE k \in 1..Len(str) :
                    /\ \A i \in 1..k : ~IsSpace(str[i])
                    /\ k = Len(str) \/ IsSpace(str[k + 1])
         IN <<SubSeq(str, 1, n)>> \o split_whitespace(SubSeq(str, n + 1, Len(str)))

\* str::parse::<usize>: a non-empty run of decimal digits and its value.
IsNumber(tok) ==
    /\ tok # <<>>
    /\ \A i \in 1..Len(tok) : \E d \in 0..9 : Digits[d + 1] = tok[i]
RECURSIVE NumberOf(_)
NumberOf(tok) ==
    IF tok = <<>> THEN 0
    ELSE 10 * NumberOf(SubSeq(tok, 1, Len(tok) - 1))
            + (CHOOSE d \in 0..9 : Digits[d + 1] = tok[Len(tok)])

\* PubCommand::try_parse
try_parse(buf) ==
    LET len == Len(buf) IN
    IF len < 2 THEN Panic
    ELSE IF Slice(buf, len - 2, len) # <<CR, LF>> THEN Err("IncompleteCommandError")
    ELSE IF len < 3 THEN Panic
    ELSE LET payload_start == Position(Slice(buf, 0, len - 3)) IN
    IF payload_start = -1 THEN Err("CommandMalformed")
    ELSE IF At(buf, payload_start + 1) # LF THEN Err("CommandMalformed")
    ELSE LET payload == Slice(buf, payload_start, len - 2)
             split == split_whitespace(Slice(buf, 0, payload_start))
         IN
    IF split = <<>> THEN Err("CommandMalformed")
    ELSE IF Head(split) # <<"P", "U", "B">> THEN Err("CommandMalformed")
    ELSE LET after_cmd == Tail(split) IN
    IF after_cmd = <<>> THEN Err("CommandMalformed")
    ELSE LET last == after_cmd[Len(after_cmd)]
             after_len == SubSeq(after_cmd, 1, Len(after_cmd) - 1)
         IN
    IF ~IsNumber(last) THEN Err("ParseIntError")
    ELSE IF Len(payload) # NumberOf(last) THEN Err("CommandMalformed")
    ELSE IF after_len = <<>> THEN Err("CommandMalformed")
    ELSE Ok([subject |-> after_len[1],
             reply_to |-> IF Len(after_len) >= 2 THEN Some(after_len[2]) ELSE None,
             payload |-> payload])

----------------------------------------------------------------------------
ClientInit ==
    /\ outq = <<>>
    /\ wire = <<>>
    /\ writer = "running"
    /\ arrived = 0
    /\ sent = [c \in Callers |-> 0]
    /\ rstream = <<>>
    /\ rpos = 0
    /\ reader = "running"
    /\ subs_tx = [s \in AllSids |-> NoOwner]
    /\ other = <<>>
    /\ subs = <<>>
    /\ reqs = <<>>
    /\ client = "alive"
    /\ res = [c \in Callers |-> "none"]

Init == ClientInit /\ codec = NoCodec

\* A PubCommand is handed to the codec; the client is left as constructed.
InitCodec ==
    /\ ClientInit
    /\ \E op \in PubCommands : codec = [pc |-> "op", op |-> op]

Calls == sent[<<"caller", 1>>] + sent[<<"caller", 2>>] + Len(reqs)

----------------------------------------------------------------------------
\* The codec at work

clientVars == <<outq, wire, writer, arrived, sent, rstream, rpos, reader,
                subs_tx, other, subs, reqs, client, res>>

\* The encoder serialises the command.
IntoVec ==
    /\ codec.pc = "op"
    /\ codec' = [pc |-> "bytes", op |-> codec.op, buf |-> into_vec(codec.op)]
    /\ UNCHANGED clientVars

\* The decoder parses the frame.
TryParse ==
    /\ codec.pc = "bytes"
    /\ codec' = [pc |-> "parsed", op |-> codec.op, buf |-> codec.buf,
                 parsed |-> try_parse(codec.buf)]
    /\ UNCHANGED clientVars

NextCodec == IntoVec \/ TryParse

SpecCodec == InitCodec /\ [][NextCodec]_vars

----------------------------------------------------------------------------
\* The facade (NatsClient)

\* The subjects a caller may put in the PubCommand it hands to publish, and
\* their text.
EmptySubject == <<"subject", 2>>
SpacedSubject == <<"subject", 3>>
PubSubjects == {UserSubject, EmptySubject, SpacedSubject}
SubjectText(subject) ==
    IF subject = EmptySubject THEN <<>>
    ELSE IF subject = SpacedSubject THEN <<"f", SP, "o">>
    ELSE <<"f", "o", "o">>

\* What the future returned by send resolves with.
SendResult == IF SendOk THEN "ok" ELSE "BrokenChain"

\* connect: self.tx.send(Op::CONNECT(..)) and then future::ok(self).  The
\* closure owns the client and is dropped with it when the send failed.
Connect(c) ==
    /\ client = "alive"
    /\ Calls < MaxCalls
    /\ Send(OutOp("CONNECT", NoSubject, NoSid, NoSubject, 0, c, sent[c] + 1))
    /\ sent' = [sent EXCEPT ![c] = @ + 1]
    /\ res' = [res EXCEPT ![c] = SendResult]
    /\ client' = IF SendOk THEN "alive" ELSE "dropped"
    /\ other' = IF SendOk THEN other ELSE <<>>
    /\ subs_tx' = Keep(subs_tx, reader, client', subs, reqs)
    /\ UNCHANGED <<wire, writer, rstream, rpos, reader, subs, reqs, codec>>

\* publish: self.tx.send(Op::PUB(cmd)), whatever the subject of cmd is.
Publish(c, subject) ==
    /\ client = "alive"
    /\ Calls < MaxCalls
    /\ Send(OutOp("PUB", subject, NoSid, NoSubject, 0, c, sent[c] + 1))
    /\ sent' = [sent EXCEPT ![c] = @ + 1]
    /\ res' = [res EXCEPT ![c] = SendResult]
    /\ UNCHANGED <<wire, writer, rstream, rpos, reader, subs_tx, other, subs, reqs>>
    /\ UNCHANGED <<client, codec>>

\* unsubscribe: self.tx.send(Op::UNSUB(cmd))
Unsubscribe(c, s) ==
    /\ client = "alive"
    /\ Calls < MaxCalls
    /\ Send(OutOp("UNSUB", NoSubject, s, NoSubject, 0, c, sent[c] + 1))
    /\ sent' = [sent EXCEPT ![c] = @ + 1]
    /\ res' = [res EXCEPT ![c] = SendResult]
    /\ UNCHANGED <<wire, writer, rstream, rpos, reader, subs_tx, other, subs, reqs>>
    /\ UNCHANGED <<client, codec>>

\* subscribe, the call: self.tx.send(Op::SUB(cmd.clone())) runs at once and
\* the and_then closure is kept for the first poll of the returned future.
SubscribeCall(c, s) ==
    /\ client = "alive"
    /\ Calls < MaxCalls
    /\ Send(OutOp("SUB", UserSubject, s, NoSubject, 0, c, sent[c] + 1))
    /\ sent' = [sent EXCEPT ![c] = @ + 1]
    /\ subs' = Append(subs, [sid |-> s, by |-> c,
                             pc |-> IF SendOk THEN "called" ELSE "err",
                             q |-> <<>>, recvd |-> <<>>, since |-> 0])
    /\ UNCHANGED <<wire, writer, rstream, rpos, reader, subs_tx, other, reqs>>
    /\ UNCHANGED <<client, res, codec>>

\* subscribe, the poll: inner_rx.for_sid(cmd.sid) creates the sink and
\* inserts its sender in the registry.  since keeps the position of the
\* reader at that moment and recvd what the consumer has taken so far; only
\* the properties read them.
SubscribePoll(f) ==
    /\ f \in 1..Len(subs)
    /\ subs[f].pc = "called"
    /\ subs' = [subs EXCEPT ![f].pc = "stream", ![f].since = rpos]
    /\ subs_tx' = Keep(Insert(subs_tx, subs[f].sid, <<"sub", f>>),
                       reader, client, subs', reqs)
    /\ UNCHANGED <<outq, wire, writer, arrived, sent, rstream, rpos, reader, other, reqs>>
    /\ UNCHANGED <<client, res, codec>>

\* The consumer polls the stream returned by subscribe.
StreamRecv(f) ==
    /\ f \in 1..Len(subs)
    /\ subs[f].pc = "stream"
    /\ subs[f].q # <<>>
    /\ subs' = [subs EXCEPT ![f].recvd = Append(@, Next1(subs[f].q)),
                            ![f].q = Rest(@)]
    /\ UNCHANGED <<outq, wire, writer, arrived, sent, rstream, rpos, reader,
                   subs_tx, other, reqs>>
    /\ UNCHANGED <<client, res, codec>>

\* The consumer polls a stream whose sink is empty and has lost its sender:
\* the receiver yields None, the stream has ended.
StreamEnd(f) ==
    /\ f \in 1..Len(subs)
    /\ subs[f].pc = "stream"
    /\ subs[f].q = <<>>
    /\ ~TxAlive(<<"sub", f>>)
    /\ subs' = [subs EXCEPT ![f].pc = "ended"]
    /\ UNCHANGED <<outq, wire, writer, arrived, sent, rstream, rpos, reader,
                   subs_tx, other, reqs, client, res, codec>>

\* The consumer drops the stream returned by subscribe: the receiver goes
\* with what it holds.  for_sid returns the bare receiver (rx.map_err), which
\* knows nothing of the registry.
StreamDrop(f) ==
    /\ f \in 1..Len(subs)
    /\ subs[f].pc = "stream"
    /\ subs' = [subs EXCEPT ![f].pc = "dropped", ![f].q = <<>>]
    /\ UNCHANGED <<outq, wire, writer, arrived, sent, rstream, rpos, reader,
                   subs_tx, other, reqs, client, res, codec>>

\* The last user lets go of the NatsClient: other_rx, tx and the client's
\* Arc of the multiplexer are dropped.
ClientDrop ==
    /\ client = "alive"
    /\ client' = "dropped"
    /\ other' = <<>>
    /\ subs_tx' = Keep(subs_tx, reader, "dropped", subs, reqs)
    /\ UNCHANGED <<outq, wire, writer, arrived, sent, rstream, rpos, reader,
                   subs, reqs, res, codec>>

----------------------------------------------------------------------------
\* The tasks

\* sink.send_all(rx): the writer task takes the next operation of the queue
\* and writes it to the socket.
WriterWrite ==
    /\ writer = "running"
    /\ outq # <<>>
    /\ wire' = Append(wire, Next1(outq))
    /\ outq' = Rest(outq)
    /\ UNCHANGED <<writer, arrived, sent, rstream, rpos, reader, subs_tx, other, subs, reqs>>
    /\ UNCHANGED <<client, res, codec>>

\* The socket write fails: send_all resolves with the error, the task ends
\* and the receiver of the outbound channel is dropped with what it holds.
WriterFail ==
    /\ writer = "running"
    /\ outq # <<>>
    /\ writer' = "failed"
    /\ outq' = <<>>
    /\ UNCHANGED <<wire, arrived, sent, rstream, rpos, reader, subs_tx, other, subs, reqs>>
    /\ UNCHANGED <<client, res, codec>>

\* Who holds a sender of the outbound channel: the client (field tx) and the
\* closures of request that own tx1 and tx2.
SendersHeld ==
    \/ client = "alive"
    \/ \E r \in 1..Len(reqs) : reqs[r].pc \in {"sub", "unsub"}

\* The outbound channel is empty and has lost its senders: rx ends, send_all
\* closes the sink and resolves, the task ends.
WriterDone ==
    /\ writer = "running"
    /\ outq = <<>>
    /\ ~SendersHeld
    /\ writer' = "done"
    /\ UNCHANGED <<outq, wire, arrived, sent, rstream, rpos, reader, subs_tx,
                   other, subs, reqs, client, res, codec>>

----------------------------------------------------------------------------
\* request

\* The SUB, UNSUB and PUB of the r-th request.
ReqSub(r) == OutOp("SUB", Inbox(r), ReqSid(r), NoSubject, 0, <<"req", r>>, 1)
ReqUnsub(r) == OutOp("UNSUB", NoSubject, ReqSid(r), NoSubject, 1, <<"req", r>>, 2)
ReqPub(r) == OutOp("PUB", UserSubject, NoSid, Inbox(r), 0, <<"req", r>>, 3)

\* What a step of the chain leaves the future in: the next step, or the
\* error of the send (and_then skips the closures that follow an Err).
After(pc) == IF SendOk THEN pc ELSE "err"

\* request, the call: builds the commands and runs self.tx.send(Op::SUB(..)).
RequestCall ==
    /\ client = "alive"
    /\ Calls < MaxCalls
    /\ LET r == Len(reqs) + 1 IN
        /\ Send(ReqSub(r))
        /\ reqs' = Append(reqs, [pc |-> After("sub"), q |-> <<>>, result |-> NoMsg])
    /\ UNCHANGED <<wire, writer, sent, rstream, rpos, reader, subs_tx, other, subs>>
    /\ UNCHANGED <<client, res, codec>>

\* first closure of the chain: tx1.send(Op::UNSUB(unsub_cmd))
RequestUnsub(r) ==
    /\ r \in 1..Len(reqs)
    /\ reqs[r].pc = "sub"
    /\ Send(ReqUnsub(r))
    /\ reqs' = [reqs EXCEPT ![r].pc = After("unsub")]
    /\ UNCHANGED <<wire, writer, sent, rstream, rpos, reader, subs_tx, other, subs>>
    /\ UNCHANGED <<client, res, codec>>

\* second closure: tx2.send(Op::PUB(pub_cmd))
RequestPub(r) ==
    /\ r \in 1..Len(reqs)
    /\ reqs[r].pc = "unsub"
    /\ Send(ReqPub(r))
    /\ reqs' = [reqs EXCEPT ![r].pc = After("pub")]
    /\ UNCHANGED <<wire, writer, sent, rstream, rpos, reader, subs_tx, other, subs>>
    /\ UNCHANGED <<client, res, codec>>

\* third closure: rx.for_sid(sid) creates the sink and registers it.
RequestForSid(r) ==
    /\ r \in 1..Len(reqs)
    /\ reqs[r].pc = "pub"
    /\ reqs' = [reqs EXCEPT ![r].pc = "await"]
    /\ subs_tx' = Keep(Insert(subs_tx, ReqSid(r), <<"req", r>>),
                       reader, client, subs, reqs')
    /\ UNCHANGED <<outq, wire, writer, arrived, sent, rstream, rpos, reader, other, subs>>
    /\ UNCHANGED <<client, res, codec>>

\* .take(1).into_future(): the first item of the sink resolves the future
\* and the stream is dropped with it.
RequestRecv(r) ==
    /\ r \in 1..Len(reqs)
    /\ reqs[r].pc = "await"
    /\ reqs[r].q # <<>>
    /\ reqs' = [reqs EXCEPT ![r].pc = "done", ![r].result = Next1(reqs[r].q),
                            ![r].q = <<>>]
    /\ UNCHANGED <<outq, wire, writer, arrived, sent, rstream, rpos, reader,
                   subs_tx, other, subs>>
    /\ UNCHANGED <<client, res, codec>>

\* The sink of the request is empty and has lost its sender: the receiver
\* yields None, into_future resolves with (None, stream) and the map closure
\* runs maybe_message.unwrap() on it, which panics.
RequestEnd(r) ==
    /\ r \in 1..Len(reqs)
    /\ reqs[r].pc = "await"
    /\ reqs[r].q = <<>>
    /\ ~TxAlive(<<"req", r>>)
    /\ reqs' = [reqs EXCEPT ![r].pc = "panicked"]
    /\ UNCHANGED <<outq, wire, writer, arrived, sent, rstream, rpos, reader,
                   subs_tx, other, subs, client, res, codec>>

\* The caller drops the future of a request that has not resolved: the
\* closures not yet run go with what they own, and so does the receiver of
\* the sink when for_sid has run.  No code runs for the drop.
RequestCancel(r) ==
    /\ r \in 1..Len(reqs)
    /\ reqs[r].pc \in {"sub", "unsub", "pub", "await"}
    /\ reqs' = [reqs EXCEPT ![r].pc = "cancelled", ![r].q = <<>>]
    /\ subs_tx' = Keep(subs_tx, reader, client, subs, reqs')
    /\ UNCHANGED <<outq, wire, writer, arrived, sent, rstream, rpos, reader,
                   other, subs, client, res, codec>>

----------------------------------------------------------------------------
\* The broker and the reader task

OnWire(op) == \E i \in 1..Len(wire) : wire[i] = [op EXCEPT !.n = wire[i].n]

\* The sids a MSG of the broker can carry: any sid a user may pick, and the
\* generated sid of a request once its PUB has told the world the inbox.
Deliverable ==
    UserSids \cup {ReqSid(r) : r \in {x \in 1..Len(reqs) : OnWire(ReqPub(x))}}

SubjectOf(sid) ==
    IF sid \in UserSids THEN UserSubject
    ELSE Inbox(CHOOSE r \in 1..MaxCalls : ReqSid(r) = sid)

BrokerMsg(s) ==
    /\ reader = "running"
    /\ Len(rstream) < MaxEmit
    /\ s \in Deliverable
    /\ rstream' = Append(rstream, Frame("MSG", SubjectOf(s), s, Len(rstream) + 1))
    /\ UNCHANGED <<outq, wire, writer, arrived, sent, rpos, reader, subs_tx, other, subs, reqs>>
    /\ UNCHANGED <<client, res, codec>>

BrokerCtl(t) ==
    /\ reader = "running"
    /\ Len(rstream) < MaxEmit
    /\ rstream' = Append(rstream, Frame(t, NoSubject, NoSid, Len(rstream) + 1))
    /\ UNCHANGED <<outq, wire, writer, arrived, sent, rpos, reader, subs_tx, other, subs, reqs>>
    /\ UNCHANGED <<client, res, codec>>

\* unbounded_send(msg.clone()) on the sink of owner o; the result is ignored,
\* so a sink whose receiver is gone takes nothing.
Deliver(o, msg) ==
    IF ~RxAlive(o) THEN UNCHANGED <<subs, reqs>>
    ELSE IF o[1] = "sub"
    THEN /\ subs' = [subs EXCEPT ![o[2]].q = Push(@, msg)]
         /\ UNCHANGED reqs
    ELSE /\ reqs' = [reqs EXCEPT ![o[2]].q = Push(@, msg)]
         /\ UNCHANGED subs

IsMsg(op) == op.t = "MSG"

Control == <<"other", 0>>
Drop == <<"drop", 0>>

\* A match that forwards a MSG of an unknown sid to the control channel.
RouteUnknownToControl(reg, op) ==
    IF IsMsg(op) /\ Lookup(reg, op.sid) # NoOwner THEN Lookup(reg, op.sid)
    ELSE Control

\* A match that swallows the acknowledgements of the broker.
RouteDropOk(reg, op) ==
    IF IsMsg(op)
    THEN IF Lookup(reg, op.sid) # NoOwner THEN Lookup(reg, op.sid) ELSE Drop
    ELSE IF op.t = "+OK" THEN Drop ELSE Control

\* The match of the for_each closure: where one op of the stream goes.  A MSG
\* goes to the sink the registry holds for its sid and nowhere when it holds
\* none; every other op goes to other_tx.
Route(reg, op) ==
    IF IsMsg(op)
    THEN IF Lookup(reg, op.sid) # NoOwner THEN Lookup(reg, op.sid) ELSE Drop
    ELSE Control

\* The closure of stream.for_each in NatsClientMultiplexer::new, on one op.
\* The result of each unbounded_send is ignored: other_tx takes nothing once
\* other_rx has gone with the client.
Demux ==
    /\ reader = "running"
    /\ rpos < Len(rstream)
    /\ LET op == rstream[rpos + 1]
           to == Route(subs_tx, op)
       IN
        /\ rpos' = rpos + 1
        /\ IF to = Control
           THEN /\ other' = IF client = "alive" THEN Push(other, op) ELSE other
                /\ UNCHANGED <<subs, reqs>>
           ELSE /\ IF to = Drop THEN UNCHANGED <<subs, reqs>> ELSE Deliver(to, op)
                /\ UNCHANGED other
    /\ UNCHANGED <<outq, wire, writer, arrived, sent, rstream, reader, subs_tx>>
    /\ UNCHANGED <<client, res, codec>>

\* The stream of the reader half ends (EOF): for_each resolves, the task ends.
ReaderEnd ==
    /\ reader = "running"
    /\ rpos = Len(rstream)
    /\ reader' = "ended"
    /\ subs_tx' = Keep(subs_tx, "ended", client, subs, reqs)
    /\ UNCHANGED <<outq, wire, writer, arrived, sent, rstream, rpos, other, subs, reqs>>
    /\ UNCHANGED <<client, res, codec>>

----------------------------------------------------------------------------
Next ==
    \/ \E c \in Callers : Connect(c)
    \/ \E c \in Callers : Publish(c, UserSubject)
    \/ \E c \in Callers, s \in UserSids : Unsubscribe(c, s)
    \/ \E c \in Callers, s \in UserSids : SubscribeCall(c, s)
    \/ \E f \in 1..MaxCalls : SubscribePoll(f)
    \/ \E f \in 1..MaxCalls : StreamRecv(f)
    \/ \E f \in 1..MaxCalls : StreamEnd(f)
    \/ \E f \in 1..MaxCalls : StreamDrop(f)
    \/ ClientDrop
    \/ RequestCall
    \/ \E r \in 1..MaxCalls : RequestUnsub(r)
    \/ \E r \in 1..MaxCalls : RequestPub(r)
    \/ \E r \in 1..MaxCalls : RequestForSid(r)
    \/ \E r \in 1..MaxCalls : RequestRecv(r)
    \/ \E r \in 1..MaxCalls : RequestEnd(r)
    \/ \E r \in 1..MaxCalls : RequestCancel(r)
    \/ WriterWrite
    \/ WriterFail
    \/ WriterDone
    \/ \E s \in AllSids : BrokerMsg(s)
    \/ \E t \in CtlOps : BrokerCtl(t)
    \/ Demux
    \/ ReaderEnd

Spec == Init /\ [][Next]_vars

\* The outbound path alone: the producers, the queue and the writer task.
\* No other action writes outq, wire, writer, arrived or sent.
NextOut ==
    \/ \E c \in Callers : Connect(c)
    \/ \E c \in Callers : Publish(c, UserSubject)
    \/ \E c \in Callers, s \in UserSids : Unsubscribe(c, s)
    \/ \E c \in Callers, s \in UserSids : SubscribeCall(c, s)
    \/ RequestCall
    \/ \E r \in 1..MaxCalls : RequestUnsub(r)
    \/ \E r \in 1..MaxCalls : RequestPub(r)
    \/ WriterWrite
    \/ WriterFail

SpecOut == Init /\ [][NextOut]_vars

\* publish alone, with every subject a PubCommand can carry.
NextPub ==
    \/ \E c \in Callers, subject \in PubSubjects : Publish(c, subject)
    \/ WriterWrite
    \/ WriterFail

SpecPub == Init /\ [][NextPub]_vars

\* The writer task is spawned on the executor, which runs it whenever the
\* queue has an operation for it.
FairOut == SpecOut /\ WF_vars(WriterWrite)

\* The inbound path alone: the broker, the reader task, the registry and the
\* consumers of subscribe.  The outbound path reaches rstream, rpos, reader,
\* subs_tx, other and subs only through the outcome of the send in subscribe.
NextIn ==
    \/ \E s \in UserSids : SubscribeCall(<<"caller", 1>>, s)
    \/ \E f \in 1..MaxCalls : SubscribePoll(f)
    \/ \E f \in 1..MaxCalls : StreamRecv(f)
    \/ \E f \in 1..MaxCalls : StreamEnd(f)
    \/ \E s \in AllSids : BrokerMsg(s)
    \/ \E t \in CtlOps : BrokerCtl(t)
    \/ Demux
    \/ ReaderEnd

SpecIn == Init /\ [][NextIn]_vars

\* One or more requests next to a publishing caller, with both tasks and the
\* broker, and no stream error: neither the writer fails nor the reader ends.
NextReq ==
    \/ \E c \in Callers : Publish(c, UserSubject)
    \/ RequestCall
    \/ \E r \in 1..MaxCalls : RequestUnsub(r)
    \/ \E r \in 1..MaxCalls : RequestPub(r)
    \/ \E r \in 1..MaxCalls : RequestForSid(r)
    \/ \E r \in 1..MaxCalls : RequestRecv(r)
    \/ WriterWrite
    \/ \E s \in AllSids : BrokerMsg(s)
    \/ \E t \in CtlOps : BrokerCtl(t)
    \/ Demux

\* The two tasks are spawned on the executor and run whenever they can make a
\* step; the future of a request is handed to the executor, which polls it
\* until it resolves.  Nothing obliges the callers or the broker to act.
Fairness ==
    /\ WF_vars(WriterWrite)
    /\ WF_vars(Demux)
    /\ \A r \in 1..MaxCalls :
        /\ WF_vars(RequestUnsub(r))
        /\ WF_vars(RequestPub(r))
        /\ WF_vars(RequestForSid(r))
        /\ WF_vars(RequestRecv(r))

FairSpec == Init /\ [][NextReq]_vars /\ Fairness

----------------------------------------------------------------------------
\* Properties

\* What a consumer of subscribe has seen and what still waits in its sink.
SinkItems(f) == subs[f].recvd \o subs[f].q

\* The MSGs of sid among the frames lo+1..hi of the broker's emission.
Window(lo, hi, sid) ==
    LET Mine(op) == IsMsg(op) /\ op.sid = sid
    IN SelectSeq(SubSeq(rstream, lo + 1, hi), Mine)

\* The operations of request r on the wire, in wire order.
ReqOnWire(r) ==
    LET Mine(op) == op.by = <<"req", r>>
    IN SelectSeq(wire, Mine)

HasReply(r) == Window(0, Len(rstream), ReqSid(r)) # <<>>
FirstReply(r) == Head(Window(0, Len(rstream), ReqSid(r)))
StreamError == reader # "running" \/ writer # "running"

\* C1: no SUB of a subscribe call is on the wire while the registry holds no
\* entry for its sid (the sink is registered before the SUB is enqueued).
C1_SubOnWireIsRegistered ==
    \A i \in 1..Len(wire) :
        (wire[i].t = "SUB" /\ wire[i].by \in Callers) => subs_tx[wire[i].sid] # NoOwner

\* C2: once the broker has emitted a reply MSG with the sid of a request
\* (which it does only after the PUB of the request is on the wire), the
\* request eventually resolves with that MSG, unless a stream fails or ends.
C2_ReplyResolvesRequest ==
    \A r \in 1..MaxCalls :
        HasReply(r) ~>
            \/ StreamError
            \/ /\ r \in 1..Len(reqs)
               /\ reqs[r].pc = "done"
               /\ reqs[r].result = FirstReply(r)

\* C3: the operations of one request reach the wire as SUB(inbox, sid), then
\* UNSUB(sid, 1), then PUB(reply_to = inbox), whatever other producers send.
C3_RequestFramesInOrder ==
    \A r \in 1..MaxCalls :
        LET ops == ReqOnWire(r) IN
        /\ Len(ops) <= 3
        /\ Len(ops) >= 1 => /\ ops[1].t = "SUB"
                            /\ ops[1].subject = Inbox(r)
                            /\ ops[1].sid = ReqSid(r)
        /\ Len(ops) >= 2 => /\ ops[2].t = "UNSUB"
                            /\ ops[2].sid = ops[1].sid
                            /\ ops[2].max_msgs = 1
        /\ Len(ops) >= 3 => /\ ops[3].t = "PUB"
                            /\ ops[3].reply_to = ops[1].subject

\* Witness of C3: the three frames of a request are on the wire with an
\* operation of another producer between its SUB and its PUB.
C3_Witness ==
    \E r \in 1..Len(reqs) : \E i, j, k \in 1..Len(wire) :
        /\ i < j /\ j < k
        /\ wire[i].by = <<"req", r>> /\ wire[i].t = "SUB"
        /\ wire[j].by \in Callers
        /\ wire[k].by = <<"req", r>> /\ wire[k].t = "PUB"
        /\ Len(ReqOnWire(r)) = 3

\* C4: a request that resolved holds the earliest MSG the broker emitted with
\* the sid of the request.
C4_ResultIsFirstReply ==
    \A r \in 1..Len(reqs) :
        reqs[r].pc = "done" => (HasReply(r) /\ reqs[r].result = FirstReply(r))

\* C5: a step of unsubscribe leaves the registry without an entry for the sid
\* it names.
C5_UnsubscribeRemovesEntry ==
    [][\A c \in Callers, s \in UserSids :
        Unsubscribe(c, s) => subs_tx'[s] = NoOwner]_vars

\* C6: the socket receives the operations in their order of arrival at the
\* queue, none skipped, and so each producer's operations in the order of its
\* sends.
C6_WireInArrivalOrder ==
    /\ \A i \in 1..Len(wire) : wire[i].n = i
    /\ writer = "running" => \A i \in 1..Len(outq) : outq[i].n = Len(wire) + i
    /\ \A i, j \in 1..Len(wire) :
        (i < j /\ wire[i].by = wire[j].by) => wire[i].k < wire[j].k

\* Witness of C6: three operations are on the wire, two of one producer and
\* one of another.
C6_Witness ==
    /\ Len(wire) >= 3
    /\ \E i, j \in 1..Len(wire) : i < j /\ wire[i].by = wire[j].by
    /\ \E i, j \in 1..Len(wire) : wire[i].by # wire[j].by

\* C7: a MSG is found only in the sink registered under its own sid: every
\* item of a sink carries the sid of that sink, no MSG is in two sinks and
\* none is in the control channel.
C7_MsgOnlyToItsSid ==
    /\ \A f \in 1..Len(subs) : \A i \in 1..Len(SinkItems(f)) :
        SinkItems(f)[i].sid = subs[f].sid
    /\ \A f, g \in 1..Len(subs) : \A i \in 1..Len(SinkItems(f)) :
        \A j \in 1..Len(SinkItems(g)) :
            f # g => SinkItems(f)[i].n # SinkItems(g)[j].n
    /\ \A r \in 1..Len(reqs) :
        /\ \A i \in 1..Len(reqs[r].q) : reqs[r].q[i].sid = ReqSid(r)
        /\ reqs[r].pc = "done" => reqs[r].result.sid = ReqSid(r)
    /\ \A i \in 1..Len(other) : ~IsMsg(other[i])

\* Witness of C7: two subscriptions of one subject and different sids are
\* registered and a MSG has reached one of them.
C7_Witness ==
    \E f, g \in 1..Len(subs) :
        /\ subs[f].sid # subs[g].sid
        /\ subs_tx[subs[f].sid] = <<"sub", f>>
        /\ subs_tx[subs[g].sid] = <<"sub", g>>
        /\ SinkItems(f) # <<>>
        /\ SinkItems(f)[1].subject = UserSubject

\* C8: the step of the reader task on a MSG whose sid the registry does not
\* hold changes no sink, not the control channel and not the registry, and
\* leaves the task running.
C8_UnknownSidDropped ==
    [][(/\ rpos' = rpos + 1
        /\ IsMsg(rstream[rpos + 1])
        /\ subs_tx[rstream[rpos + 1].sid] = NoOwner)
       => (/\ UNCHANGED <<subs, reqs, other, subs_tx>>
           /\ reader' = "running")]_vars

\* Witness of C8: a MSG was read and is in no sink, and the frame after it
\* was read and routed to the control channel.
C8_Witness ==
    \E i \in 1..rpos :
        /\ IsMsg(rstream[i])
        /\ \A f \in 1..Len(subs) : \A k \in 1..Len(SinkItems(f)) :
            SinkItems(f)[k].n # i
        /\ i < rpos
        /\ \E k \in 1..Len(other) : other[k].n = i + 1

\* C9: as long as a sid stays registered to one sink, what the consumer of
\* that sink has received and what waits in it are exactly the MSGs of the
\* sid the reader took since the registration, in emission order.
C9_PerSubscriptionOrder ==
    \A f \in 1..Len(subs) :
        (subs[f].pc = "stream" /\ subs_tx[subs[f].sid] = <<"sub", f>>)
            => SinkItems(f) = Window(subs[f].since, rpos, subs[f].sid)

\* Witness of C9: a consumer has received two MSGs of its sid.
C9_Witness ==
    \E f \in 1..Len(subs) :
        /\ subs_tx[subs[f].sid] = <<"sub", f>>
        /\ Len(subs[f].recvd) >= 2

\* C10: the control channel holds exactly the frames that are not MSGs among
\* those the reader took, in emission order, and no sink holds one of them.
C10_ControlInOrder ==
    /\ LET NotMsg(op) == ~IsMsg(op)
       IN other = SelectSeq(SubSeq(rstream, 1, rpos), NotMsg)
    /\ \A f \in 1..Len(subs) : \A i \in 1..Len(SinkItems(f)) : IsMsg(SinkItems(f)[i])
    /\ \A r \in 1..Len(reqs) :
        /\ \A i \in 1..Len(reqs[r].q) : IsMsg(reqs[r].q[i])
        /\ reqs[r].pc = "done" => IsMsg(reqs[r].result)

\* Witness of C10: two control frames of different kinds are in the control
\* channel.
C10_Witness ==
    /\ Len(other) >= 2
    /\ other[1].t # other[2].t

\* C11: once the reader task has ended, no subscription stream and no request
\* still has its sender in the registry and the control channel has lost its
\* senders, so that every consumer observes end-of-stream.
C11_ReaderEndClosesSinks ==
    reader = "ended" =>
        /\ \A f \in 1..Len(subs) : subs[f].pc = "stream" => ~TxAlive(<<"sub", f>>)
        /\ \A r \in 1..Len(reqs) : reqs[r].pc = "await" => ~TxAlive(<<"req", r>>)
        /\ ~SinksHeld(reader, client, subs, reqs)

\* C12: a request that waits on an empty sink whose sender is gone leaves the
\* wait only with the error BrokenChain (or because its caller drops it).
C12_ClosedSinkIsBrokenChain ==
    [][\A r \in 1..Len(reqs) :
        (/\ reqs[r].pc = "await"
         /\ reqs[r].q = <<>>
         /\ ~TxAlive(<<"req", r>>)
         /\ reqs'[r].pc \notin {"await", "cancelled"})
        => reqs'[r].pc = "err"]_vars

\* The outcome of the send a step of a caller or of a request has made.
CallerResult(c) ==
    IF Len(subs') > Len(subs)
    THEN IF subs'[Len(subs')].pc = "err" THEN "BrokenChain" ELSE "ok"
    ELSE res'[c]
RequestSent(r) ==
    IF r = Len(reqs) + 1 THEN Len(reqs') = r
    ELSE /\ r \in 1..Len(reqs)
         /\ reqs[r].pc \in {"sub", "unsub"}
         /\ reqs'[r].pc \notin {reqs[r].pc, "cancelled"}
RequestResult(r) == IF reqs'[r].pc = "err" THEN "BrokenChain" ELSE "ok"
SendHonest(result, by) ==
    /\ writer # "running" => (result = "BrokenChain" /\ UNCHANGED <<outq, arrived>>)
    /\ result = "ok" => /\ writer = "running"
                        /\ arrived' = arrived + 1
                        /\ Len(outq') = Len(outq) + 1
                        /\ outq'[Len(outq')].by = by
                        /\ outq'[Len(outq')].n = arrived'
    /\ result \in {"ok", "BrokenChain"}

\* C13: the writer task that hit a write error has ended and holds no queue;
\* every send made after it (by publish, subscribe, unsubscribe, connect or a
\* step of request) returns BrokenChain and queues nothing, and a send that
\* returns success has put its operation in a queue the writer still drains.
C13_SendAfterFailureFails ==
    /\ [](writer = "failed" => outq = <<>>)
    /\ [][/\ \A c \in Callers :
              sent'[c] # sent[c] => SendHonest(CallerResult(c), c)
          /\ \A r \in 1..MaxCalls :
              RequestSent(r) => SendHonest(RequestResult(r), <<"req", r>>)]_vars

\* Witness of C13: the writer has failed after it took an operation, and a
\* caller and a request have each made a send since that returned BrokenChain.
C13_Witness ==
    /\ writer = "failed"
    /\ arrived >= 1
    /\ \E c \in Callers : res[c] = "BrokenChain"
    /\ \E r \in 1..Len(reqs) : reqs[r].pc = "err"

\* C14: a frame that was parsed gave back the PubCommand it was made of:
\* the same subject, the same reply_to and the same payload bytes.
C14_PubRoundTrip ==
    codec.pc = "parsed" =>
        (codec.parsed.tag = "Ok" /\ codec.parsed.v = codec.op)

\* The fields of a header, split at each TAB.
RECURSIVE Fields(_)
Fields(str) ==
    IF \E i \in 1..Len(str) : str[i] = TAB
    THEN LET i == CHOOSE k \in 1..Len(str) :
                    str[k] = TAB /\ \A j \in 1..(k - 1) : str[j] # TAB
         IN <<SubSeq(str, 1, i - 1)>> \o Fields(SubSeq(str, i + 1, Len(str)))
    ELSE <<str>>

WellFormedSubject(text) ==
    /\ text # <<>>
    /\ \A i \in 1..Len(text) : ~IsSpace(text[i])

\* C16: every PUB a publish has put in the outbound queue or on the wire
\* carries a subject that is non-empty and free of whitespace.
C16_PublishedSubjectIsValid ==
    \A i \in 1..Len(outq \o wire) :
        LET op == (outq \o wire)[i] IN
        (op.t = "PUB" /\ op.by \in Callers) => WellFormedSubject(SubjectText(op.subject))

\* C17: at most one stream per sid has its sender in the registry; the poll
\* of subscribe that registers a sid leaves its own sink as the entry and no
\* other; a stream that lost its entry holds exactly the MSGs of the sid read
\* between its registration and that of a later stream of the sid, and once
\* ended it is empty and has no sender.
C17_ReplaceDropsPrior ==
    /\ [](\A f \in 1..Len(subs) :
            /\ \A g \in 1..Len(subs) :
                (/\ f # g
                 /\ subs[f].sid = subs[g].sid
                 /\ TxAlive(<<"sub", f>>)) => ~TxAlive(<<"sub", g>>)
            /\ (subs[f].pc \in {"stream", "ended"} /\ ~TxAlive(<<"sub", f>>)) =>
                \E g \in 1..Len(subs) :
                    /\ g # f
                    /\ subs[g].sid = subs[f].sid
                    /\ subs[g].pc \in {"stream", "ended"}
                    /\ subs[g].since >= subs[f].since
                    /\ SinkItems(f) = Window(subs[f].since, subs[g].since, subs[f].sid)
            /\ subs[f].pc = "ended" =>
                (subs[f].q = <<>> /\ ~TxAlive(<<"sub", f>>)))
    /\ [][\A g \in 1..Len(subs) :
            (subs[g].pc = "called" /\ subs'[g].pc = "stream") =>
                /\ subs_tx'[subs[g].sid] = <<"sub", g>>
                /\ \A s \in AllSids : s # subs[g].sid => subs_tx'[s] = subs_tx[s]]_vars

\* Witness of C17: the stream of a replaced entry has ended with a MSG
\* received, and the stream that replaced it has a MSG as well.
C17_Witness ==
    \E f, g \in 1..Len(subs) :
        /\ f # g
        /\ subs[f].sid = subs[g].sid
        /\ subs[f].pc = "ended"
        /\ TxAlive(<<"sub", g>>)
        /\ SinkItems(f) # <<>>
        /\ SinkItems(g) # <<>>

\* C18: a subscription stream that was dropped has no entry in the registry.
C18_DroppedStreamUnregistered ==
    \A f \in 1..Len(subs) : subs[f].pc = "dropped" => ~TxAlive(<<"sub", f>>)

\* C19: the registry holds no entry for the sid of a request that was
\* cancelled or has ended in any other way.
C19_EndedRequestUnregistered ==
    \A r \in 1..Len(reqs) :
        reqs[r].pc \in {"cancelled", "done", "err", "panicked"}
            => ~Registered(ReqSid(r))

\* C20: every operation the outbound channel accepted is written to the
\* socket, at the position of its arrival and nowhere else, unless the socket
\* write fails; what is accepted and not yet written waits in the queue.
C20_AcceptedIsWritten ==
    /\ \A n \in 1..(3 * MaxCalls) :
        (arrived >= n) ~> (writer = "failed" \/ (Len(wire) >= n /\ wire[n].n = n))
    /\ [](\A i, j \in 1..Len(wire) : wire[i].n = wire[j].n => i = j)
    /\ [](writer = "running" => Len(wire) + Len(outq) = arrived)

\* Witness of C20: three accepted operations are all on the wire and the
\* writer is still running.
C20_Witness ==
    /\ writer = "running"
    /\ arrived >= 3
    /\ Len(wire) = arrived

=============================================================================
